---- MODULE Spec2Model ----
(***************************************************************************)
(* A model of HARK's generic backward-induction solver (HARK/HARKcore.py): *)
(* the AgentType time-direction operations (timeFlip, timeFwd, timeRev),   *)
(* AgentType.solve, the driver solveAgent and the cycle solver             *)
(* solveACycle.                                                            *)
(*                                                                         *)
(* An agent is a record; its Python attributes that hold parameters live   *)
(* in the function agent.attrs (attribute name -> value), so that a name   *)
(* listed in time_vary or time_inv is looked up the way eval('agent.'+name)*)
(* looks it up.  The attribute 'solution' exists only after a solve().     *)
(*                                                                         *)
(* A solution object is a record [v, k]: v is the value the distance       *)
(* function compares, k counts the periods between this solution and the   *)
(* terminal solution (the fixture "solver returns solution_tp1 + 1").      *)
(***************************************************************************)
EXTENDS Integers, Sequences, FiniteSets, TLC

VARIABLES
    agent,                \* the AgentType instance
    pc,                   \* "idle", or the position inside solve(): "loop", "finish"
    original_time_flow,   \* solveAgent local (line 120)
    cycles_left,          \* solveAgent local (line 124)
    infinite_horizon,     \* solveAgent local (line 125)
    solution,             \* solveAgent local: the accumulator (line 128)
    solution_last,        \* solveAgent local (line 133)
    go,                   \* solveAgent local (line 134)
    completed_cycles,     \* solveAgent local (line 135)
    solution_cycle,       \* solveAgent local: result of the last solveACycle
    cycle_T,              \* observation: T computed by the last solveACycle
    calls,                \* observation: the solver calls of the last solveACycle
    call_error,           \* observation: the binding error of the last solveACycle
    cycles_run,           \* observation: solveACycle invocations of this solveAgent
    lasts,                \* observation: solution_now of every cycle of this solveAgent
    returned,             \* observation: the list solveAgent returned last
    last_cycle,           \* observation: the list the last solveACycle returned
    last_op, prev_op,     \* observation: the last two public operations
    outcome,              \* observation: "ok", "running" or "error" of the last operation
    before1, before2,     \* observation: the agent before the last / the one before
    nsolves,              \* number of solve() calls so far (bounded)
    other,                \* a second instance of the agent's class; the class-level
                          \* list time_vary it shares is the one held in agent.time_vary
    other_error,          \* observation: the error of the last operation on other
    smm                   \* observation: the last call of smmObjectiveFxn: its
                          \* arguments, whether it assigned, its solve() calls, its result

vars == <<agent, pc, original_time_flow, cycles_left, infinite_horizon, solution,
          solution_last, go, completed_cycles, solution_cycle, cycle_T, calls,
          call_error, cycles_run, lasts, returned, last_cycle, last_op, prev_op,
          outcome, before1, before2, nsolves, other, other_error, smm>>

locals == <<original_time_flow, cycles_left, infinite_horizon, solution,
            solution_last, go, completed_cycles, solution_cycle>>

observed == <<cycle_T, calls, call_error, cycles_run, lasts, returned, last_cycle>>

second == <<other, other_error>>

-----------------------------------------------------------------------------
(* Bounds of the model *)

MaxT == 2            \* longest time-varying sequence of an initial agent
MaxCycleCount == 2   \* largest agent.cycles of an initial agent
MaxSolves == 2       \* solve() calls per behaviour

(* solveAgent's escape clause, max_cycles = 5000 in the source, scaled down *)
max_cycles == 3

-----------------------------------------------------------------------------
(* Helpers *)

Reverse(s) == [i \in 1..Len(s) |-> s[Len(s) + 1 - i]]

InSeq(x, s) == \E i \in 1..Len(s) : s[i] = x

Range(s) == {s[i] : i \in 1..Len(s)}

MinOf(a, b) == IF a <= b THEN a ELSE b

AbsDiff(a, b) == IF a >= b THEN a - b ELSE b - a

None == "None"

-----------------------------------------------------------------------------
(* Fixtures: the model-supplied collaborators of the solver core *)

(* The terminal solution: value 0, zero periods from the end. *)
TerminalSolution == [v |-> 0, k |-> 0]

(* Solution.distance(other): the distance between two solution objects. *)
distance(solutionA, solutionB) == AbsDiff(solutionA.v, solutionB.v)

(* A per-period solver is a record [t, args, cap]: t is the period it     *)
(* belongs to (1 = first period in chronological order), args the argument *)
(* names it declares, cap the value at which its output stops growing.     *)
(* It returns solution_tp1 + 1 (v capped at cap), and raises when it is    *)
(* given a rho equal to the number of periods already solved.              *)
(* A solver that does not declare solution_tp1 returns a constant.         *)
SolverCall(solver, kwargs) ==
    IF "solution_tp1" \in DOMAIN kwargs
    THEN IF "rho" \in DOMAIN kwargs /\ kwargs["rho"] = kwargs["solution_tp1"].k
         THEN [ok |-> FALSE, value |-> TerminalSolution]
         ELSE [ok |-> TRUE,
               value |-> [v |-> MinOf(kwargs["solution_tp1"].v + 1, solver.cap),
                          k |-> kwargs["solution_tp1"].k + 1]]
    ELSE [ok |-> TRUE, value |-> [v |-> solver.cap, k |-> 1]]

(* getArgNames(function): the argument names the callable declares. *)
getArgNames(solver) == solver.args

-----------------------------------------------------------------------------
(* AgentType *)

(* timeFlip, lines 46-47: reverse, in place and in list order, every       *)
(* attribute named in time_vary.                                           *)
RECURSIVE ReverseNamed(_, _, _)
ReverseNamed(attrs, names, i) ==
    IF i > Len(names) THEN attrs
    ELSE ReverseNamed([attrs EXCEPT ![names[i]] = Reverse(@)], names, i + 1)

(* timeFlip reversing only the first time-varying attribute *)
timeFlip_first_only(ag) ==
    [ag EXCEPT !.attrs = ReverseNamed(ag.attrs,
                             SubSeq(ag.time_vary, 1, MinOf(1, Len(ag.time_vary))), 1),
               !.time_flow = ~ag.time_flow]

timeFlip(ag) ==
    [ag EXCEPT !.attrs = ReverseNamed(ag.attrs, ag.time_vary, 1),
               !.time_flow = ~ag.time_flow]

(* timeFwd without its test of the current direction *)
timeFwd_unguarded(ag) == timeFlip(ag)

(* timeFwd with its test inverted *)
timeFwd_inverted(ag) == IF ag.time_flow THEN timeFlip(ag) ELSE ag

(* timeRev leaving a forward agent as it is *)
timeRev_skipped(ag) == ag

timeFwd(ag) == IF ~ag.time_flow THEN timeFlip(ag) ELSE ag

timeRev(ag) == IF ag.time_flow THEN timeFlip(ag) ELSE ag

isSameThing(ag, solutionA, solutionB) ==
    distance(solutionA, solutionB) <= ag.tolerance

(* assignParameters with one keyword: set (or create) the attribute *)
assignParameters(ag, key, temp) ==
    [ag EXCEPT !.attrs = (key :> temp) @@ ag.attrs]

-----------------------------------------------------------------------------
(* solveACycle *)

(* lines 178-182 *)
PeriodCount(ag) ==
    IF Len(ag.time_vary) > 0
    THEN Len(ag.attrs[ag.time_vary[1]])
    ELSE 1

(* line 185 *)
always_same_solver(ag) == ~InSeq("solveAPeriod", ag.time_vary)

(* lines 191-197: the time-invariant values, then None for every           *)
(* time-varying name (a later key of the dict literal replaces an earlier) *)
SolveDict(ag) ==
    [name \in Range(ag.time_inv) \cup Range(ag.time_vary) |->
        IF InSeq(name, ag.time_vary) THEN None ELSE ag.attrs[name]]

(* the declared time-varying names bound to the elements counted from the *)
(* end of their sequences                                                  *)
UpdatedDict_from_end(ag, solve_dict, these_args, t, solution_tp1) ==
    ("solution_tp1" :> solution_tp1) @@
    [name \in DOMAIN solve_dict |->
        IF InSeq(name, ag.time_vary) /\ InSeq(name, these_args)
        THEN ag.attrs[name][Len(ag.attrs[name]) + 1 - t]
        ELSE solve_dict[name]]

(* lines 210-213 for period t (1-based): the declared time-varying names   *)
(* get element t, solution_tp1 is bound, everything else keeps its value   *)
UpdatedDict(ag, solve_dict, these_args, t, solution_tp1) ==
    ("solution_tp1" :> solution_tp1) @@
    [name \in DOMAIN solve_dict |->
        IF InSeq(name, ag.time_vary) /\ InSeq(name, these_args)
        THEN ag.attrs[name][t]
        ELSE solve_dict[name]]

(* temp_dict holding the whole of solve_dict *)
TempDict_all(solve_dict, these_args) == solve_dict

(* line 216 *)
TempDict(solve_dict, these_args) ==
    [name \in Range(these_args) |-> solve_dict[name]]

(* lines 202-221: periods t..T of one cycle.  The result carries the       *)
(* error that ended the cycle ("none" when it ran to its end), the         *)
(* solutions and the solver calls made.                                    *)
RECURSIVE Periods(_, _, _, _, _, _, _)

(* the period loop going on to the next period, with the same next-period *)
(* solution, when the solver raises                                        *)
Periods_swallow(ag, T, t, solve_dict, solution_tp1, cyc, log) ==
    IF t > T THEN [error |-> "none", cycle |-> cyc, calls |-> log]
    ELSE
    LET solveAPeriod == IF always_same_solver(ag)
                        THEN ag.attrs["solveAPeriod"]
                        ELSE ag.attrs["solveAPeriod"][t]
        these_args == getArgNames(solveAPeriod)
        d == UpdatedDict(ag, solve_dict, these_args, t, solution_tp1)
        temp_dict == TempDict(d, these_args)
        r == SolverCall(solveAPeriod, temp_dict)
        call == [t |-> t, solver |-> solveAPeriod, kwargs |-> temp_dict]
    IN  Periods(ag, T, t + 1, d, r.value, Append(cyc, r.value), Append(log, call))

Periods(ag, T, t, solve_dict, solution_tp1, cyc, log) ==
    IF t > T THEN [error |-> "none", cycle |-> cyc, calls |-> log]
    ELSE IF ~always_same_solver(ag) /\ t > Len(ag.attrs["solveAPeriod"])
    THEN [error |-> "IndexError", cycle |-> cyc, calls |-> log]
    ELSE
    LET solveAPeriod == IF always_same_solver(ag)
                        THEN ag.attrs["solveAPeriod"]
                        ELSE ag.attrs["solveAPeriod"][t]
        these_args == getArgNames(solveAPeriod)
    IN  IF \E name \in Range(ag.time_vary) :
               InSeq(name, these_args) /\ t > Len(ag.attrs[name])
        THEN [error |-> "IndexError", cycle |-> cyc, calls |-> log]
        ELSE
        LET d == UpdatedDict(ag, solve_dict, these_args, t, solution_tp1)
        IN  IF \E name \in Range(these_args) : name \notin DOMAIN d
            THEN [error |-> "KeyError", cycle |-> cyc, calls |-> log]
            ELSE
            LET temp_dict == TempDict(d, these_args)
                r == SolverCall(solveAPeriod, temp_dict)
                call == [t |-> t, solver |-> solveAPeriod, kwargs |-> temp_dict]
            IN  IF ~r.ok
                THEN [error |-> "SolverError", cycle |-> cyc,
                      calls |-> Append(log, call)]
                ELSE Periods(ag, T, t + 1, d, r.value,
                             Append(cyc, r.value), Append(log, call))

(* every cycle seeded with the terminal solution *)
solveACycle_from_terminal(ag, sol_last) ==
    Periods(ag, PeriodCount(ag), 1, SolveDict(ag), ag.solution_terminal, <<>>, <<>>)

solveACycle(ag, sol_last) ==
    Periods(ag, PeriodCount(ag), 1, SolveDict(ag), sol_last, <<>>, <<>>)

-----------------------------------------------------------------------------
(* solveAgent, cut at the head of its while loop *)

(* the initial list with the test of pseudo_terminal inverted *)
InitialSolution_inverted(ag) ==
    IF ag.pseudo_terminal THEN <<ag.solution_terminal>> ELSE <<>>

(* lines 128-130 *)
InitialSolution(ag) ==
    IF ~ag.pseudo_terminal THEN <<ag.solution_terminal>> ELSE <<>>

(* the termination test applied after the first cycle too *)
KeepGoing_tests_first(ag, infinite, completed, left, solution_now, sol_last) ==
    IF infinite
    THEN (~isSameThing(ag, solution_now, sol_last)) /\ (completed < max_cycles)
    ELSE left - 1 > 0

(* lines 146-153: the value of go after a cycle; completed is               *)
(* completed_cycles before its increment, left is cycles_left before its   *)
(* decrement                                                               *)
KeepGoing(ag, infinite, completed, left, solution_now, sol_last) ==
    IF infinite
    THEN IF completed > 0
         THEN (~isSameThing(ag, solution_now, sol_last)) /\ (completed < max_cycles)
         ELSE TRUE
    ELSE left - 1 > 0

(* the last cycle appended to the accumulator instead of replacing it *)
FinalSolution_appended(infinite, sol, sol_cycle) ==
    IF infinite THEN sol \o sol_cycle ELSE sol

(* the accumulator returned in the infinite-horizon case too *)
FinalSolution_accumulator(infinite, sol, sol_cycle) == sol

(* lines 160-161 *)
FinalSolution(infinite, sol, sol_cycle) ==
    IF infinite THEN sol_cycle ELSE sol

(* lines 165-166 *)
RestoreTime(ag, original) == IF original THEN timeFwd(ag) ELSE ag

(* solve() storing what solveAgent returned without reversing it *)
StoreSolution_unreversed(ag, sol) ==
    [ag EXCEPT !.attrs = ("solution" :> sol) @@ ag.attrs,
               !.time_vary = IF ~InSeq("solution", ag.time_vary)
                             THEN Append(ag.time_vary, "solution")
                             ELSE ag.time_vary]

(* AgentType.solve, lines 69-73, given what solveAgent returned *)
StoreSolution(ag, sol) ==
    LET stored == IF ag.time_flow THEN Reverse(sol) ELSE sol
    IN  [ag EXCEPT !.attrs = ("solution" :> stored) @@ ag.attrs,
                   !.time_vary = IF ~InSeq("solution", ag.time_vary)
                                 THEN Append(ag.time_vary, "solution")
                                 ELSE ag.time_vary]

-----------------------------------------------------------------------------
(* Initial agents *)

RhoValues == {-1, 1}

SolverCaps == {2, 99}

Tolerances == {0, 1}

Shapes == {"none", "params", "solvers"}

ParamSeq(base, T, fwd) ==
    LET f == [i \in 1..T |-> base + i] IN IF fwd THEN f ELSE Reverse(f)

(* AgentType.__init__ with the keywords of the fixture subclass.  The      *)
(* sequences are given in the order time_flow announces.                   *)
MakeAgent(shape, T, argsOf, cap, rho, cycles, time_flow, pseudo_terminal, tolerance) ==
    LET solvers == [i \in 1..T |-> [t |-> i, args |-> argsOf[i], cap |-> cap]]
        shared == [t |-> 0, args |-> argsOf[1], cap |-> cap]
    IN  [solution_terminal |-> TerminalSolution,
         cycles |-> cycles,
         time_flow |-> time_flow,
         pseudo_terminal |-> pseudo_terminal,
         tolerance |-> tolerance,
         time_vary |-> CASE shape = "none" -> <<>>
                         [] shape = "params" -> <<"a", "b">>
                         [] shape = "solvers" -> <<"a", "solveAPeriod">>,
         time_inv |-> IF shape = "solvers" THEN <<"rho">>
                      ELSE <<"rho", "solveAPeriod">>,
         attrs |-> [a |-> ParamSeq(10, T, time_flow),
                    b |-> ParamSeq(20, T, time_flow),
                    rho |-> rho,
                    solveAPeriod |-> IF shape = "solvers"
                                     THEN IF time_flow THEN solvers ELSE Reverse(solvers)
                                     ELSE shared]]

(* The argument names the fixture solvers declare in the main specification *)
MainArgs ==
    [shape \in Shapes |->
        IF shape = "none" THEN {<<"solution_tp1", "rho">>}
        ELSE {<<"solution_tp1", "a", "rho">>}]

NoSolution == <<>>

(* A second instance of the same subclass, constructed with the same       *)
(* sequences, the default time_flow = False of __init__ and rho = -1       *)
SecondInstance(ag) == assignParameters(timeRev(ag), "rho", -1)

(* smmObjectiveFxn has not been called *)
NotCalled == [beth |-> 0, rho |-> 0, assigned |-> FALSE, solves |-> 0, result |-> "none"]

(* The state right after the construction of the agent ag *)
InitVars(ag) ==
    /\ agent = ag
    /\ pc = "idle"
    /\ original_time_flow = FALSE
    /\ cycles_left = 0
    /\ infinite_horizon = FALSE
    /\ solution = NoSolution
    /\ solution_last = TerminalSolution
    /\ go = FALSE
    /\ completed_cycles = 0
    /\ solution_cycle = NoSolution
    /\ cycle_T = 0
    /\ calls = <<>>
    /\ call_error = "none"
    /\ cycles_run = 0
    /\ lasts = <<>>
    /\ returned = NoSolution
    /\ last_cycle = NoSolution
    /\ last_op = "init"
    /\ prev_op = "init"
    /\ outcome = "ok"
    /\ before1 = agent
    /\ before2 = agent
    /\ nsolves = 0
    /\ other = SecondInstance(agent)
    /\ other_error = "none"
    /\ smm = NotCalled

InitWith(shapes, periods, argsFor, cyclesSet, capSet, rhoSet, tolSet) ==
    \E shape \in shapes, T \in periods, cap \in capSet, rho \in rhoSet,
       cycles \in cyclesSet, tf \in BOOLEAN, pt \in BOOLEAN, tol \in tolSet :
       \E argsOf \in [1..T -> argsFor[shape]] :
          /\ (shape = "none" => T = 1)
          /\ (cycles # 0 => cap = 99 /\ tol = 0)
          /\ InitVars(MakeAgent(shape, T, argsOf, cap, rho, cycles, tf, pt, tol))

Init == InitWith(Shapes, 1..MaxT, MainArgs, -1..MaxCycleCount, SolverCaps, RhoValues, Tolerances)

-----------------------------------------------------------------------------
(* Actions *)

Shift(op) ==
    /\ prev_op' = last_op
    /\ last_op' = op
    /\ before2' = before1
    /\ before1' = agent

ResetLocals ==
    /\ original_time_flow' = FALSE
    /\ cycles_left' = 0
    /\ infinite_horizon' = FALSE
    /\ solution' = NoSolution
    /\ solution_last' = TerminalSolution
    /\ go' = FALSE
    /\ completed_cycles' = 0
    /\ solution_cycle' = NoSolution

TimeFlip ==
    /\ pc = "idle"
    /\ agent' = timeFlip(agent)
    /\ outcome' = "ok"
    /\ Shift("timeFlip")
    /\ UNCHANGED <<pc, locals, observed, nsolves, second, smm>>

TimeFwd ==
    /\ pc = "idle"
    /\ agent' = timeFwd(agent)
    /\ outcome' = "ok"
    /\ Shift("timeFwd")
    /\ UNCHANGED <<pc, locals, observed, nsolves, second, smm>>

TimeRev ==
    /\ pc = "idle"
    /\ agent' = timeRev(agent)
    /\ outcome' = "ok"
    /\ Shift("timeRev")
    /\ UNCHANGED <<pc, locals, observed, nsolves, second, smm>>

AssignParameters ==
    /\ pc = "idle"
    /\ \E rho \in RhoValues : agent' = assignParameters(agent, "rho", rho)
    /\ outcome' = "ok"
    /\ Shift("assignParameters")
    /\ UNCHANGED <<pc, locals, observed, nsolves, second, smm>>

(* solve() up to the head of solveAgent's loop: preSolve (a no-op), lines 120-135 *)
SolveBegin ==
    /\ pc = "idle"
    /\ nsolves < MaxSolves
    /\ nsolves' = nsolves + 1
    /\ original_time_flow' = agent.time_flow
    /\ agent' = timeRev(agent)
    /\ cycles_left' = agent.cycles
    /\ infinite_horizon' = (agent.cycles = 0)
    /\ solution' = InitialSolution(agent)
    /\ solution_last' = agent.solution_terminal
    /\ go' = TRUE
    /\ completed_cycles' = 0
    /\ solution_cycle' = NoSolution
    /\ cycle_T' = 0
    /\ calls' = <<>>
    /\ call_error' = "none"
    /\ cycles_run' = 0
    /\ lasts' = <<>>
    /\ returned' = NoSolution
    /\ last_cycle' = NoSolution
    /\ outcome' = "running"
    /\ pc' = "loop"
    /\ Shift("solve")
    /\ UNCHANGED <<second, smm>>

(* One pass of the while loop, lines 140-157; an error raised inside       *)
(* solveACycle leaves solveAgent and solve()                               *)
SolveCycle ==
    /\ pc = "loop"
    /\ go
    /\ LET r == solveACycle(agent, solution_last)
           failed == r.error # "none" \/ Len(r.cycle) = 0
           solution_now == r.cycle[Len(r.cycle)]
       IN  /\ cycle_T' = PeriodCount(agent)
           /\ calls' = r.calls
           /\ call_error' = IF r.error = "none" /\ failed THEN "IndexError" ELSE r.error
           /\ cycles_run' = cycles_run + 1
           /\ IF failed
              THEN /\ pc' = "idle"
                   /\ outcome' = "error"
                   /\ ResetLocals
                   /\ UNCHANGED <<lasts, last_cycle>>
              ELSE /\ solution_cycle' = r.cycle
                   /\ solution' = IF ~infinite_horizon THEN solution \o r.cycle ELSE solution
                   /\ go' = KeepGoing(agent, infinite_horizon, completed_cycles,
                                      cycles_left, solution_now, solution_last)
                   /\ cycles_left' = IF infinite_horizon THEN cycles_left ELSE cycles_left - 1
                   /\ solution_last' = solution_now
                   /\ completed_cycles' = completed_cycles + 1
                   /\ lasts' = Append(lasts, solution_now)
                   /\ last_cycle' = r.cycle
                   /\ UNCHANGED <<pc, outcome, original_time_flow, infinite_horizon>>
    /\ UNCHANGED <<agent, returned, last_op, prev_op, before1, before2, nsolves, second, smm>>

(* The loop has ended: lines 160-167 of solveAgent, then lines 69-74 of solve() *)
SolveReturn ==
    /\ pc = "loop"
    /\ ~go
    /\ LET sol == FinalSolution(infinite_horizon, solution, solution_cycle)
           restored == RestoreTime(agent, original_time_flow)
       IN  /\ returned' = sol
           /\ agent' = StoreSolution(restored, sol)
    /\ pc' = "idle"
    /\ outcome' = "ok"
    /\ ResetLocals
    /\ UNCHANGED <<cycle_T, calls, call_error, cycles_run, lasts, last_cycle,
                   last_op, prev_op, before1, before2, nsolves, second, smm>>

Next ==
    \/ TimeFlip
    \/ TimeFwd
    \/ TimeRev
    \/ AssignParameters
    \/ SolveBegin
    \/ SolveCycle
    \/ SolveReturn

Spec == Init /\ [][Next]_vars

-----------------------------------------------------------------------------
(* The agents of the chronological-ordering fixture: a horizon of          *)
(* ChronPeriods periods, one cycle, a solver that returns solution_tp1 + 1 *)
(* (and raises when rho = 1)                                               *)

ChronPeriods == 3

InitChron ==
    InitWith({"params", "solvers"}, {ChronPeriods}, MainArgs, {1}, {99}, RhoValues, {0})

SpecChron == InitChron /\ [][Next]_vars

-----------------------------------------------------------------------------
(* Vocabulary of the claims *)

SolveDone == pc = "idle" /\ last_op = "solve" /\ outcome = "ok"

(* The solutions 1, 2, ..., n in the order the solver produced them *)
CountUp(n) == [i \in 1..n |-> [v |-> i, k |-> i]]

(* One flip of ag, stated from its effect: every attribute named in        *)
(* time_vary reversed, time_flow negated, everything else as it was        *)
IsOneFlipOf(after, ag) ==
    /\ after.time_flow = ~ag.time_flow
    /\ DOMAIN after.attrs = DOMAIN ag.attrs
    /\ \A name \in DOMAIN ag.attrs :
          after.attrs[name] = IF InSeq(name, ag.time_vary)
                              THEN Reverse(ag.attrs[name])
                              ELSE ag.attrs[name]
    /\ [after EXCEPT !.attrs = <<>>, !.time_flow = TRUE]
         = [ag EXCEPT !.attrs = <<>>, !.time_flow = TRUE]

-----------------------------------------------------------------------------
(* C1: one call of solveAgent never invokes solveACycle more than          *)
(* max_cycles times.  The code tests completed_cycles < max_cycles before  *)
(* it counts the cycle just run, so a solve that never converges runs      *)
(* max_cycles + 1 cycles.                                                  *)
C1_AtMostMaxCycles == cycles_run <= max_cycles

(* C2, as claimed: with terminal solution 0, a solver returning            *)
(* solution_tp1 + 1, ChronPeriods periods, one cycle and no terminal entry,*)
(* solve() stores [1, 2, 3] whatever time_flow was.                        *)
C2_StoresOneTwoThree ==
    (SolveDone /\ agent.pseudo_terminal)
        => agent.attrs["solution"] = CountUp(ChronPeriods)

(* C2, amended: the stored list is [1, 2, 3] (the order of solving, last   *)
(* period first) when time_flow is False, and its reverse [3, 2, 1] (first *)
(* period first) when time_flow is True; time_flow is as it was on entry.  *)
C2_StoredInAgentDirection ==
    (SolveDone /\ agent.pseudo_terminal)
        => /\ agent.time_flow = before1.time_flow
           /\ agent.attrs["solution"] = IF agent.time_flow
                                        THEN Reverse(CountUp(ChronPeriods))
                                        ELSE CountUp(ChronPeriods)

C2_Witness ==
    /\ SolveDone /\ agent.pseudo_terminal /\ agent.time_flow
    /\ Len(agent.attrs["solution"]) = ChronPeriods
    /\ agent.attrs["solution"][1].v = ChronPeriods

(* C3: a second solve() right after a completed solve() stores the same    *)
(* solution list as the first.                                             *)
C3_ResolveSame ==
    (SolveDone /\ prev_op = "solve" /\ agent.cycles >= 0)
        => agent.attrs["solution"] = before1.attrs["solution"]

(* C4, as claimed: timeRev(); timeFwd() and timeFwd(); timeRev() leave the *)
(* agent as it was before the two calls.                                   *)
C4_RoundTripRestores ==
    (pc = "idle" /\ ((prev_op = "timeRev" /\ last_op = "timeFwd")
                     \/ (prev_op = "timeFwd" /\ last_op = "timeRev")))
        => agent = before2

(* C4, amended: timeRev(); timeFwd() restores the agent when time_flow was *)
(* True and timeFwd(); timeRev() restores it when time_flow was False; in  *)
(* the other starting direction the first call does nothing and the agent  *)
(* ends flipped once.                                                      *)
C4_RoundTripFromForcedSide ==
    /\ (pc = "idle" /\ prev_op = "timeRev" /\ last_op = "timeFwd")
         => IF before2.time_flow THEN agent = before2 ELSE IsOneFlipOf(agent, before2)
    /\ (pc = "idle" /\ prev_op = "timeFwd" /\ last_op = "timeRev")
         => IF before2.time_flow THEN IsOneFlipOf(agent, before2) ELSE agent = before2

C4_Witness ==
    /\ pc = "idle" /\ prev_op = "timeRev" /\ last_op = "timeFwd"
    /\ before2.time_flow
    /\ agent = before2
    /\ ~before1.time_flow
    /\ Len(agent.time_vary) = 3
    /\ Len(agent.attrs["a"]) >= 2

-----------------------------------------------------------------------------
(* The agents of the argument-binding fixture: solvers that declare        *)
(* different subsets of the available names, and a name (zz) that is       *)
(* neither time-varying nor time-invariant                                 *)

BindArgs ==
    [shape \in Shapes |->
        {<<"solution_tp1">>, <<"a", "solution_tp1">>, <<"rho", "b", "solution_tp1">>,
         <<"solution_tp1", "zz">>, <<"rho">>}]

InitBind == InitWith(Shapes, 1..MaxT, BindArgs, {2}, {99}, RhoValues, {0})

SpecBind == InitBind /\ [][Next]_vars

-----------------------------------------------------------------------------
(* More vocabulary of the claims *)

(* The period count of an agent as the spec defines it: the length of the  *)
(* first time-varying sequence, 1 when nothing is time-varying             *)
ClaimPeriods(ag) ==
    IF ag.time_vary = <<>> THEN 1 ELSE Len(ag.attrs[Head(ag.time_vary)])

SolverCapOf(ag) ==
    IF InSeq("solveAPeriod", ag.time_vary)
    THEN ag.attrs["solveAPeriod"][1].cap
    ELSE ag.attrs["solveAPeriod"].cap

(* The chronological position an element of a time-varying sequence        *)
(* carries: parameters and solvers are numbered forward in time, a         *)
(* solution is k periods before the end                                    *)
ChronKey(name, x) ==
    CASE name = "solveAPeriod" -> x.t
      [] name = "solution" -> 0 - x.k
      [] OTHER -> x

IsForward(name, s) ==
    \A i, j \in 1..Len(s) : i < j => ChronKey(name, s[i]) < ChronKey(name, s[j])

IsBackward(name, s) ==
    \A i, j \in 1..Len(s) : i < j => ChronKey(name, s[i]) > ChronKey(name, s[j])

(* The agent is the one the last solveACycle ran on *)
CycleObserved ==
    /\ last_op = "solve"
    /\ cycles_run > 0
    /\ pc = "loop" \/ (pc = "idle" /\ outcome = "error")

ChosenSolver(t) ==
    IF InSeq("solveAPeriod", agent.time_vary)
    THEN agent.attrs["solveAPeriod"][t]
    ELSE agent.attrs["solveAPeriod"]

Bindable(name) ==
    name = "solution_tp1" \/ InSeq(name, agent.time_inv) \/ InSeq(name, agent.time_vary)

-----------------------------------------------------------------------------
(* C5: a completed finite-horizon solve with cycles = C > 0 and T periods  *)
(* returns, and stores, C*T solutions, plus the terminal solution when     *)
(* pseudo_terminal is False.                                               *)
C5_FiniteLength ==
    (SolveDone /\ agent.cycles > 0)
        => LET n == agent.cycles * ClaimPeriods(before1)
                    + (IF agent.pseudo_terminal THEN 0 ELSE 1)
           IN  Len(returned) = n /\ Len(agent.attrs["solution"]) = n

C5_Witness ==
    /\ SolveDone /\ agent.cycles = 2 /\ ~agent.pseudo_terminal
    /\ ClaimPeriods(before1) = 2
    /\ Len(returned) = 5

(* C6: a completed infinite-horizon solve returns exactly the T solutions  *)
(* of the last executed cycle, whatever pseudo_terminal is; the terminal   *)
(* solution is not among them.                                             *)
C6_InfiniteResult ==
    (SolveDone /\ agent.cycles = 0)
        => /\ Len(returned) = ClaimPeriods(before1)
           /\ returned = last_cycle
           /\ \A i \in 1..Len(returned) : returned[i] # agent.solution_terminal

C6_Witness ==
    /\ SolveDone /\ agent.cycles = 0 /\ ~agent.pseudo_terminal
    /\ cycles_run >= 3
    /\ Len(returned) = 2

(* C7: in an infinite-horizon solve the loop goes on after the first cycle *)
(* without a test; it runs at least 2 cycles, no cycle k >= 2 before the   *)
(* last is within tolerance of cycle k-1, and the last one is unless the   *)
(* ceiling ended the loop.  A solver that reaches its fixed value at cycle *)
(* 2 (one period, cap 2) with tolerance 0 runs exactly 3 cycles.           *)
C7_ConvergenceStop ==
    /\ (pc = "loop" /\ infinite_horizon /\ completed_cycles = 1) => go
    /\ (SolveDone /\ agent.cycles = 0)
         => LET n == Len(lasts)
            IN  /\ n = cycles_run
                /\ n >= 2
                /\ \A k \in 2..(n - 1) :
                      distance(lasts[k], lasts[k - 1]) > agent.tolerance
                /\ n <= max_cycles
                     => distance(lasts[n], lasts[n - 1]) <= agent.tolerance
    /\ (SolveDone /\ agent.cycles = 0 /\ agent.tolerance = 0
          /\ ClaimPeriods(before1) = 1 /\ SolverCapOf(agent) = 2)
         => cycles_run = 3

C7_Witness ==
    /\ SolveDone /\ agent.cycles = 0 /\ agent.tolerance = 0
    /\ ClaimPeriods(before1) = 1 /\ SolverCapOf(agent) = 2
    /\ cycles_run = 3
    /\ lasts[1].v = 1 /\ lasts[2].v = 2 /\ lasts[3].v = 2

(* C8: every solver call of a cycle goes to the solver chosen for its      *)
(* period, with exactly the names that solver declares: a time-varying     *)
(* name bound to element t, a time-invariant name to the agent's value,    *)
(* solution_tp1 to the solution of the period solved just before (the seed *)
(* for the first); a solver declaring a name that is none of these is not  *)
(* called, the cycle ends with a KeyError.                                 *)
C8_ExactBinding ==
    CycleObserved =>
      /\ Len(calls) <= cycle_T
      /\ \A i \in 1..Len(calls) :
            LET c == calls[i]
            IN  /\ c.t = i
                /\ c.solver = ChosenSolver(i)
                /\ DOMAIN c.kwargs = Range(c.solver.args)
                /\ \A name \in DOMAIN c.kwargs :
                      /\ Bindable(name)
                      /\ c.kwargs[name] =
                           IF name = "solution_tp1"
                           THEN IF i > 1
                                THEN SolverCall(calls[i - 1].solver, calls[i - 1].kwargs).value
                                ELSE IF cycles_run = 1 THEN agent.solution_terminal
                                     ELSE lasts[cycles_run - 1]
                           ELSE IF InSeq(name, agent.time_vary)
                                THEN agent.attrs[name][i]
                                ELSE agent.attrs[name]
      /\ (call_error = "none") => Len(calls) = cycle_T
      /\ (call_error = "KeyError") <=>
            /\ Len(calls) < cycle_T
            /\ \A i \in 1..Len(calls) : SolverCall(calls[i].solver, calls[i].kwargs).ok
            /\ \E name \in Range(ChosenSolver(Len(calls) + 1).args) : ~Bindable(name)

C8_Witness ==
    /\ CycleObserved
    /\ call_error = "none"
    /\ Len(calls) = 2
    /\ calls[1].solver.args = <<"solution_tp1">>
    /\ calls[2].solver.args = <<"a", "solution_tp1">>
    /\ DOMAIN calls[1].kwargs = {"solution_tp1"}
    /\ calls[2].kwargs["a"] = agent.attrs["a"][2]
    /\ calls[2].kwargs["solution_tp1"].k = calls[1].kwargs["solution_tp1"].k + 1

(* C9: timeFwd() leaves time_flow True and timeRev() leaves it False; each *)
(* makes no flip when the direction already agrees and one flip otherwise, *)
(* so a second identical call in a row changes nothing.                    *)
C9_ForceIdempotent ==
    /\ (pc = "idle" /\ last_op = "timeFwd")
         => /\ agent.time_flow
            /\ IF before1.time_flow THEN agent = before1 ELSE IsOneFlipOf(agent, before1)
            /\ prev_op = "timeFwd" => agent = before1
    /\ (pc = "idle" /\ last_op = "timeRev")
         => /\ ~agent.time_flow
            /\ IF before1.time_flow THEN IsOneFlipOf(agent, before1) ELSE agent = before1
            /\ prev_op = "timeRev" => agent = before1

C9_Witness ==
    /\ pc = "idle" /\ last_op = "timeFwd" /\ prev_op = "timeFwd"
    /\ ~before2.time_flow
    /\ agent = before1
    /\ InSeq("solution", agent.time_vary)
    /\ Len(agent.attrs["solution"]) >= 2

(* C10: in every state, each sequence named in time_vary (parameters, the  *)
(* per-period solvers, the stored solution) is in forward-chronological    *)
(* order when time_flow is True and in reverse order when it is False.     *)
C10_DirectionConsistent ==
    \A i \in 1..Len(agent.time_vary) :
        LET name == agent.time_vary[i]
        IN  /\ name \in DOMAIN agent.attrs
            /\ IF agent.time_flow
               THEN IsForward(name, agent.attrs[name])
               ELSE IsBackward(name, agent.attrs[name])

C10_Witness ==
    /\ pc = "idle" /\ last_op = "solve" /\ outcome = "error"
    /\ before1.time_flow /\ ~agent.time_flow
    /\ agent.time_vary = <<"a", "solveAPeriod", "solution">>
    /\ Len(agent.attrs["a"]) = 2
    /\ Len(agent.attrs["solution"]) >= 2

-----------------------------------------------------------------------------
(* Two instances of one subclass.  The AgentType docstring has every       *)
(* subclass define time_vary as a class-level list, so both instances read *)
(* one list object: agent.time_vary.  other.time_vary keeps the names the  *)
(* class declared when other was constructed.                              *)

(* timeFlip, lines 46-47, on attributes of which some may not exist: the   *)
(* loop stops with an AttributeError at the first missing one              *)
RECURSIVE ReverseUntilMissing(_, _, _)
ReverseUntilMissing(attrs, names, i) ==
    IF i > Len(names) THEN [attrs |-> attrs, error |-> "none"]
    ELSE IF names[i] \notin DOMAIN attrs
    THEN [attrs |-> attrs, error |-> "AttributeError"]
    ELSE ReverseUntilMissing([attrs EXCEPT ![names[i]] = Reverse(@)], names, i + 1)

(* other.timeFlip(), reading the class-level list; line 48 is not reached  *)
(* when the loop raises                                                    *)
OtherTimeFlip ==
    /\ pc = "idle"
    /\ LET r == ReverseUntilMissing(other.attrs, agent.time_vary, 1)
       IN  /\ other' = [other EXCEPT !.attrs = r.attrs,
                                     !.time_flow = IF r.error = "none" THEN ~@ ELSE @]
           /\ other_error' = r.error
    /\ UNCHANGED <<agent, pc, locals, observed, nsolves, last_op, prev_op, outcome,
                   before1, before2, smm>>

NextShared ==
    \/ Next
    \/ OtherTimeFlip

InitShared == InitWith(Shapes, 1..MaxT, MainArgs, {1}, {99}, RhoValues, {0})

SpecShared == InitShared /\ [][NextShared]_vars

(* C11: whatever is done to agent, the other instance keeps the time_vary  *)
(* names it was constructed with and its operations go on working.  In the *)
(* code solve() appends 'solution' to the shared class-level list, and the *)
(* other instance's timeFlip() then raises on its missing attribute.       *)
C11_InstancesIndependent ==
    /\ agent.time_vary = other.time_vary
    /\ other_error = "none"

-----------------------------------------------------------------------------
(* Agents whose time-varying sequence b is longer or shorter than the      *)
(* first time-varying sequence a, with a solver that declares b or not     *)

MismatchArgs ==
    {<<"solution_tp1", "a", "rho">>, <<"solution_tp1", "a", "b", "rho">>}

InitMismatch ==
    \E T \in 1..MaxT, Tb \in 1..(MaxT + 1), args \in MismatchArgs, rho \in RhoValues,
       tf \in BOOLEAN, pt \in BOOLEAN :
       /\ Tb # T
       /\ InitVars(assignParameters(
              MakeAgent("params", T, [i \in 1..T |-> args], 99, rho, 1, tf, pt, 0),
              "b", ParamSeq(20, Tb, tf)))

SpecMismatch == InitMismatch /\ [][Next]_vars

(* The sequences named in time_vary do not all have the same length *)
Mismatched(ag) ==
    \E m, n \in Range(ag.time_vary) : Len(ag.attrs[m]) # Len(ag.attrs[n])

(* C12: a solve() of an agent whose time-varying sequences differ in       *)
(* length ends with an error and stores no solution.  The code takes T     *)
(* from the first sequence and indexes the others only when the solver     *)
(* declares them, so a longer or an undeclared sequence goes unnoticed.    *)
C12_MismatchFails ==
    (pc = "idle" /\ last_op = "solve" /\ Mismatched(before1)
        /\ ~InSeq("solution", before1.time_vary))
        => /\ outcome = "error"
           /\ "solution" \notin DOMAIN agent.attrs

-----------------------------------------------------------------------------
(* A solver call of the last cycle raised *)
SolverRaised ==
    /\ last_op = "solve"
    /\ \E i \in 1..Len(calls) : ~SolverCall(calls[i].solver, calls[i].kwargs).ok

(* C13, as claimed: after a solve() in which the solver raised,            *)
(* agent.solution holds what it held before and time_vary is as before.    *)
C13_KeepsPreviousList ==
    (SolverRaised /\ "solution" \in DOMAIN before1.attrs)
        => /\ agent.attrs["solution"] = before1.attrs["solution"]
           /\ agent.time_vary = before1.time_vary

(* C13, amended: a raising solver call is the last call of the solve(),    *)
(* which ends there with an error; nothing is returned or stored and       *)
(* time_vary is as before; a solution stored by a previous solve() keeps   *)
(* its elements, in reversed order when time_flow was True on entry.       *)
C13_AbortStoresNothing ==
    SolverRaised
        => /\ pc = "idle" /\ outcome = "error"
           /\ ~SolverCall(calls[Len(calls)].solver, calls[Len(calls)].kwargs).ok
           /\ \A i \in 1..(Len(calls) - 1) : SolverCall(calls[i].solver, calls[i].kwargs).ok
           /\ returned = NoSolution
           /\ agent.time_vary = before1.time_vary
           /\ DOMAIN agent.attrs = DOMAIN before1.attrs
           /\ "solution" \in DOMAIN before1.attrs
                => agent.attrs["solution"] = IF before1.time_flow
                                             THEN Reverse(before1.attrs["solution"])
                                             ELSE before1.attrs["solution"]

C13_Witness ==
    /\ SolverRaised
    /\ "solution" \in DOMAIN before1.attrs
    /\ Len(before1.attrs["solution"]) >= 2
    /\ before1.time_flow
    /\ cycles_run = 2
    /\ agent.attrs["solution"] = Reverse(before1.attrs["solution"])

-----------------------------------------------------------------------------
(* Infinite-horizon agents whose solver never repeats a solution; the loop *)
(* of a solve() that was started goes on: solveAgent is one synchronous    *)
(* call.                                                                   *)
InitInfinite == InitWith({"params"}, 1..MaxT, MainArgs, {0}, {99}, RhoValues, {0})
SpecInfinite ==
    InitInfinite /\ [][Next]_vars /\ WF_vars(SolveCycle) /\ WF_vars(SolveReturn)

(* The last test of the loop did not report convergence *)
NeverConverged ==
    /\ SolveDone /\ agent.cycles = 0
    /\ Len(lasts) >= 2
    /\ \A k \in 2..Len(lasts) : distance(lasts[k], lasts[k - 1]) > agent.tolerance

(* C14: an infinite-horizon solve that was started ends; when no test      *)
(* reported convergence it ends with the ceiling reached, as a normal      *)
(* return of the T solutions of the last cycle run, which solve() stores;  *)
(* the agent gets no other new attribute (no convergence status).          *)
C14_InfiniteTerminates ==
    /\ (pc = "loop" /\ infinite_horizon) ~> (pc = "idle")
    /\ [](NeverConverged
            => /\ cycles_run >= max_cycles
               /\ outcome = "ok" /\ call_error = "none"
               /\ returned = last_cycle
               /\ Len(returned) = ClaimPeriods(before1)
               /\ returned[Len(returned)] = lasts[Len(lasts)]
               /\ DOMAIN agent.attrs = DOMAIN before1.attrs \cup {"solution"}
               /\ [agent EXCEPT !.attrs = <<>>, !.time_vary = <<>>]
                    = [before1 EXCEPT !.attrs = <<>>, !.time_vary = <<>>])

C14_Witness ==
    /\ NeverConverged
    /\ cycles_run >= max_cycles
    /\ ClaimPeriods(before1) = 2
    /\ returned = last_cycle
    /\ outcome = "ok"

-----------------------------------------------------------------------------
(* The estimation script: smmObjectiveFxn on EstimationAgent *)

(* One pass of solveAgent's loop after solveACycle returned r, lines       *)
(* 141-157; st holds the locals of solveAgent                              *)
SolveStep(ag, infinite, st, r) ==
    LET failed == r.error # "none" \/ Len(r.cycle) = 0
        solution_now == r.cycle[Len(r.cycle)]
    IN  IF failed
        THEN [error |-> IF r.error = "none" THEN "IndexError" ELSE r.error, st |-> st]
        ELSE [error |-> "none",
              st |-> [solution |-> IF ~infinite THEN st.solution \o r.cycle
                                   ELSE st.solution,
                      go |-> KeepGoing(ag, infinite, st.completed_cycles, st.cycles_left,
                                       solution_now, st.solution_last),
                      cycles_left |-> IF infinite THEN st.cycles_left
                                      ELSE st.cycles_left - 1,
                      solution_last |-> solution_now,
                      completed_cycles |-> st.completed_cycles + 1,
                      solution_cycle |-> r.cycle]]

(* solveAgent's loop, lines 137-157, as one computation: pass after pass   *)
(* until go is False or a cycle raises                                     *)
RECURSIVE SolveLoop(_, _, _)
SolveLoop(ag, infinite, st) ==
    IF ~st.go THEN [error |-> "none", st |-> st]
    ELSE CHOOSE out \in
            { IF n.error # "none" THEN n ELSE SolveLoop(ag, infinite, n.st) :
                n \in { SolveStep(ag, infinite, st, r) :
                          r \in {solveACycle(ag, st.solution_last)} } } : TRUE

(* AgentType.solve, lines 64-74, with solveAgent, lines 119-167, as one call *)
solve(ag) ==
    LET original == ag.time_flow
        reversed == timeRev(ag)
        infinite == (ag.cycles = 0)
        r == SolveLoop(reversed, infinite,
                [solution |-> InitialSolution(ag), go |-> TRUE,
                 cycles_left |-> ag.cycles, solution_last |-> ag.solution_terminal,
                 completed_cycles |-> 0, solution_cycle |-> NoSolution])
    IN  IF r.error # "none"
        THEN [agent |-> reversed, error |-> r.error]
        ELSE [agent |-> StoreSolution(RestoreTime(reversed, original),
                           FinalSolution(infinite, r.st.solution, r.st.solution_cycle)),
              error |-> "none"]

(* Params.beth_bound, Params.rho_bound *)
beth_bound == <<1, 2>>
rho_bound == <<-1, 1>>

(* Params.timevary_discount_factors, one factor per period, first period first *)
timevary_discount_factors(T) == [i \in 1..T |-> i]

(* The guesses the optimizer passes *)
BethValues == {0, 1, 3}
GuessRhoValues == {-2, -1, 1, 2}

(* the bounds check testing the lower bounds only *)
OutOfBounds_lower_only(beth, rho) ==
    beth < beth_bound[1] \/ rho < rho_bound[1]

(* SolvingMicroDSOPs.py line 64 *)
OutOfBounds(beth, rho) ==
    \/ beth < beth_bound[1] \/ beth > beth_bound[2]
    \/ rho < rho_bound[1] \/ rho > rho_bound[2]

(* agent.unpack_cFunc() and agent.simulate(...), lines 72-74: they read the *)
(* solution and leave the direction of time and the parameters alone        *)
Simulated(ag) == ag

(* smmObjectiveFxn, lines 58-88.  result is what the call returns: the     *)
(* sentinel, the distance, or the error that leaves it.                    *)
smmObjectiveFxn(ag, beth, rho) ==
    LET original == ag.time_flow
        fwd == timeFwd(ag)
        factors == timevary_discount_factors(PeriodCount(ag))
        beta == [i \in DOMAIN factors |-> factors[i] * beth]
        assigned == assignParameters(assignParameters(fwd, "beta", beta), "rho", rho)
        s == solve(assigned)
    IN  IF OutOfBounds(beth, rho)
        THEN [agent |-> fwd, assigned |-> FALSE, solves |-> 0, result |-> "1e30"]
        ELSE IF s.error # "none"
        THEN [agent |-> s.agent, assigned |-> TRUE, solves |-> 1, result |-> s.error]
        ELSE [agent |-> IF ~original THEN timeRev(Simulated(s.agent))
                        ELSE Simulated(s.agent),
              assigned |-> TRUE, solves |-> 1, result |-> "distance_sum"]

SmmObjectiveFxn ==
    /\ pc = "idle"
    /\ \E beth \in BethValues, rho \in GuessRhoValues :
          LET r == smmObjectiveFxn(agent, beth, rho)
          IN  /\ nsolves + r.solves <= MaxSolves
              /\ agent' = r.agent
              /\ nsolves' = nsolves + r.solves
              /\ smm' = [beth |-> beth, rho |-> rho, assigned |-> r.assigned,
                         solves |-> r.solves, result |-> r.result]
              /\ outcome' = IF r.result \in {"1e30", "distance_sum"} THEN "ok" ELSE "error"
    /\ Shift("smmObjectiveFxn")
    /\ UNCHANGED <<pc, locals, observed, second>>

(* EstimationAgent: a lifecycle consumer whose discount factors vary with time *)
EstimationAgent(T, rho, time_flow, pseudo_terminal) ==
    LET ag == MakeAgent("params", T, [i \in 1..T |-> <<"solution_tp1", "a", "rho">>],
                        99, rho, 1, time_flow, pseudo_terminal, 0)
    IN  [assignParameters(ag, "beta", ParamSeq(30, T, time_flow))
            EXCEPT !.time_vary = Append(@, "beta")]

InitSmm ==
    \E T \in 1..MaxT, rho \in RhoValues, tf \in BOOLEAN, pt \in BOOLEAN :
       InitVars(EstimationAgent(T, rho, tf, pt))

NextSmm == \/ TimeFlip \/ TimeFwd \/ TimeRev \/ SmmObjectiveFxn

SpecSmm == InitSmm /\ [][NextSmm]_vars

(* The guess of the last call lies within both bounds *)
GuessInBounds ==
    /\ smm.beth >= beth_bound[1] /\ smm.beth <= beth_bound[2]
    /\ smm.rho >= rho_bound[1] /\ smm.rho <= rho_bound[2]

(* The path of beta for the last guess, first period first *)
GuessBeta ==
    [i \in 1..Len(before1.attrs["beta"]) |-> i * smm.beth]

(* C15: with a guess out of bounds smmObjectiveFxn returns the sentinel,   *)
(* assigns nothing (beta and rho hold what they held, beta in the forward  *)
(* order) and does not call solve(); with a guess in bounds it assigns     *)
(* beta and rho to the agent and calls solve() once.                       *)
C15_BoundsGuardSolve ==
    last_op = "smmObjectiveFxn"
        => IF GuessInBounds
           THEN /\ smm.assigned /\ smm.solves = 1
                /\ smm.result # "1e30"
                /\ agent.attrs["rho"] = smm.rho
                /\ agent.attrs["beta"] \in {GuessBeta, Reverse(GuessBeta)}
                /\ smm.result = "distance_sum" => "solution" \in DOMAIN agent.attrs
           ELSE /\ smm.result = "1e30"
                /\ ~smm.assigned /\ smm.solves = 0
                /\ agent.attrs["rho"] = before1.attrs["rho"]
                /\ agent.attrs["beta"] = timeFwd(before1).attrs["beta"]
                /\ DOMAIN agent.attrs = DOMAIN before1.attrs
                /\ agent.time_vary = before1.time_vary

C15_Witness ==
    /\ last_op = "smmObjectiveFxn" /\ prev_op = "smmObjectiveFxn"
    /\ ~GuessInBounds /\ smm.result = "1e30"
    /\ smm.rho = 2
    /\ "solution" \in DOMAIN before1.attrs
    /\ before1.attrs["rho"] = 1
    /\ before1.attrs["beta"] = <<1, 2>>

(* C19: whenever smmObjectiveFxn returns, the sentinel or the distance,    *)
(* the agent's time_flow and the order of its time-varying sequences are   *)
(* what they were on entry.  The return of the sentinel at line 65 comes   *)
(* after timeFwd() at line 59 and before the restoring lines 86-87.        *)
C19_TimeRestored ==
    (last_op = "smmObjectiveFxn" /\ smm.result \in {"1e30", "distance_sum"})
        => /\ agent.time_flow = before1.time_flow
           /\ \A name \in Range(before1.time_vary) \ {"beta", "solution"} :
                 agent.attrs[name] = before1.attrs[name]

-----------------------------------------------------------------------------
(* A cycle of the running solve() has returned to the loop *)
CycleReturned == pc = "loop" /\ last_op = "solve" /\ cycles_run >= 1

(* C16: solveACycle leaves the agent as solveAgent handed it over (the     *)
(* agent of the call of solve(), forced backward): time_flow, time_vary,   *)
(* time_inv, every sequence and the stored solution; what it does is T     *)
(* solver calls, the i-th for index i of the sequences as they stand.      *)
C16_CycleLeavesAgent ==
    CycleReturned
        => /\ agent = timeRev(before1)
           /\ Len(calls) = PeriodCount(agent)
           /\ Len(last_cycle) = PeriodCount(agent)
           /\ \A i \in 1..Len(calls) :
                 /\ calls[i].t = i
                 /\ ~always_same_solver(agent)
                      => calls[i].solver = agent.attrs["solveAPeriod"][i]
                 /\ \A name \in Range(agent.time_vary) \cap DOMAIN calls[i].kwargs :
                       calls[i].kwargs[name] = agent.attrs[name][i]

C16_Witness ==
    /\ CycleReturned
    /\ cycles_run = 2
    /\ Len(calls) = 2
    /\ calls[1].kwargs["a"] = 12 /\ calls[2].kwargs["a"] = 11
    /\ "solution" \in DOMAIN before1.attrs
    /\ before1.time_flow
    /\ agent.attrs["solution"] = Reverse(before1.attrs["solution"])

-----------------------------------------------------------------------------
(* C17: every solver call gets as solution_tp1 the result of the solver    *)
(* call made just before it: the first call of the first cycle the         *)
(* terminal solution, the first call of a later cycle the last solution of *)
(* the cycle before, any other call the solution of the period before in   *)
(* its cycle.  With terminal solution 0 and a solver returning             *)
(* solution_tp1 + 1, solveAgent with C > 0 cycles of T periods returns     *)
(* 1, 2, ..., C*T, after the terminal solution when it is included.        *)
C17_SolutionChain ==
    /\ CycleReturned
         => /\ calls[1].kwargs["solution_tp1"]
                 = IF cycles_run = 1 THEN agent.solution_terminal
                   ELSE lasts[cycles_run - 1]
            /\ \A i \in 2..Len(calls) :
                  calls[i].kwargs["solution_tp1"] = last_cycle[i - 1]
            /\ \A i \in 1..Len(calls) :
                  last_cycle[i] = SolverCall(calls[i].solver, calls[i].kwargs).value
            /\ lasts[cycles_run] = last_cycle[Len(last_cycle)]
    /\ (SolveDone /\ agent.cycles > 0)
         => returned = (IF agent.pseudo_terminal THEN <<>> ELSE <<TerminalSolution>>)
                          \o CountUp(agent.cycles * ClaimPeriods(before1))

C17_Witness ==
    /\ SolveDone
    /\ agent.cycles = 2 /\ ClaimPeriods(before1) = 2
    /\ ~agent.pseudo_terminal
    /\ returned = <<TerminalSolution>> \o CountUp(4)
    /\ calls[1].kwargs["solution_tp1"].v = 2
    /\ calls[2].kwargs["solution_tp1"].v = 3

-----------------------------------------------------------------------------
(* C18: a solve() that the solver's error left: an agent that was forward  *)
(* is left backward, every time-varying sequence reversed and nothing else *)
(* changed (solveAgent restores the direction at its normal end only); an  *)
(* agent that was backward is left as it was.                              *)
C18_ErrorLeavesBackward ==
    (pc = "idle" /\ last_op = "solve" /\ outcome = "error" /\ call_error = "SolverError")
        => /\ ~agent.time_flow
           /\ IF before1.time_flow
              THEN IsOneFlipOf(agent, before1)
              ELSE agent = before1

C18_Witness ==
    /\ pc = "idle" /\ last_op = "solve" /\ outcome = "error"
    /\ call_error = "SolverError"
    /\ before1.time_flow /\ ~agent.time_flow
    /\ before1.attrs["a"] = <<11, 12>>
    /\ agent.attrs["a"] = <<12, 11>>

====
